---- MODULE Spec2Model ----
(***************************************************************************)
(* A model of tikv-reader's codec layer: the order-preserving integer      *)
(* codec, the logical-key parser (pkg/codec/key.go) and the value decoder  *)
(* (pkg/codec/value.go).                                                   *)
(*                                                                         *)
(* Representation.  A byte is a number in 0..255 and a byte slice or a Go  *)
(* string is a sequence of bytes (a logical key such as "t1_r1" is the     *)
(* sequence of its ASCII codes).  A 64-bit integer is a Word: a function   *)
(* from the byte significance 0..7 (0 the least significant) to a byte,    *)
(* the two's complement bits of the int64 and at the same time the bits    *)
(* of the uint64 Go's conversion uint64(v) yields.                         *)
(***************************************************************************)
EXTENDS Integers, Sequences, FiniteSets, TLC

VARIABLES op, arg, res

vars == <<op, arg, res>>

Byte == 0..255

(***************************************************************************)
(* Bounds of the input sets.                                               *)
(***************************************************************************)
MaxKeyLen == 4       \* longest key string drawn from the whole key alphabet
MaxSuffixSegs == 2   \* most "_"-separated segments after the id of a key
MaxValueLen == 3     \* longest value drawn from the whole value alphabet
MaxOffset == 2       \* largest end offset written into a generated row
MaxBlob == 2         \* longest value blob of a generated row
MaxTrunc == 2        \* most bytes cut from the end of a generated row
MaxDatums == 2       \* most datums of a generated index value
MaxBufLen == 1       \* longest destination slice handed to EncodeInt
MaxEntries == 3      \* most entries the store's iterator yields
MaxLimit == 3        \* largest limit handed to Scan
MaxFieldLen == 5     \* longest field drawn from the whole field alphabet
MaxCommandKeyLen == 3  \* longest key handed to a command from the whole key alphabet

(***************************************************************************)
(* Generic helpers.                                                        *)
(***************************************************************************)
\* All sequences over S of length at most n.
SeqsUpTo(S, n) == UNION {[1..k -> S] : k \in 0..n}

\* s[from..] as Go's s[from-1:], 1-based, empty when from > Len(s).
Drop(s, n) == SubSeq(s, n + 1, Len(s))
Take(s, n) == SubSeq(s, 1, n)

IsPrefix(p, s) == Len(p) <= Len(s) /\ Take(s, Len(p)) = p

\* bytes.Compare(x, y) < 0: byte-lexicographic order.
RECURSIVE LexLess(_, _)
LexLess(x, y) ==
    IF y = <<>> THEN FALSE
    ELSE IF x = <<>> THEN TRUE
    ELSE IF Head(x) # Head(y) THEN Head(x) < Head(y)
    ELSE LexLess(Tail(x), Tail(y))

(***************************************************************************)
(* ASCII.                                                                  *)
(***************************************************************************)
Upper ==
    <<"A", "B", "C", "D", "E", "F", "G", "H", "I", "J", "K", "L", "M",
      "N", "O", "P", "Q", "R", "S", "T", "U", "V", "W", "X", "Y", "Z">>

Lower ==
    <<"a", "b", "c", "d", "e", "f", "g", "h", "i", "j", "k", "l", "m",
      "n", "o", "p", "q", "r", "s", "t", "u", "v", "w", "x", "y", "z">>

Digit == <<"0", "1", "2", "3", "4", "5", "6", "7", "8", "9">>

\* The ASCII code of a character.
Ord(c) ==
    IF \E k \in 1..26 : Upper[k] = c THEN 64 + (CHOOSE k \in 1..26 : Upper[k] = c)
    ELSE IF \E k \in 1..26 : Lower[k] = c THEN 96 + (CHOOSE k \in 1..26 : Lower[k] = c)
    ELSE IF \E k \in 1..10 : Digit[k] = c THEN 47 + (CHOOSE k \in 1..10 : Digit[k] = c)
    ELSE CASE c = " " -> 32 [] c = "_" -> 95 [] c = ":" -> 58 [] c = "/" -> 47
           [] c = "?" -> 63 [] c = "-" -> 45 [] c = "." -> 46 [] c = "=" -> 61
           [] c = "[" -> 91 [] c = "]" -> 93 [] c = "{" -> 123 [] c = "}" -> 125

\* The Go string written as the sequence cs of its characters.
Str(cs) == [k \in 1..Len(cs) |-> Ord(cs[k])]

IsDigit(b) == b >= 48 /\ b <= 57

\* The decimal string of a sequence of digits 0..9.
DecStr(ds) == [k \in 1..Len(ds) |-> 48 + ds[k]]

(***************************************************************************)
(* 64-bit words.                                                           *)
(***************************************************************************)
Word == [0..7 -> Byte]

\* A word with its eight bytes computed once, as Go holds an integer.
WordValue(w) == w @@ <<>>

ZeroWord == [k \in 0..7 |-> 0]

\* The word of a small natural number (n < 2^24).
WordOfNat(n) ==
    [k \in 0..7 |-> IF k = 0 THEN n % 256
                    ELSE IF k = 1 THEN (n \div 256) % 256
                    ELSE IF k = 2 THEN (n \div 65536) % 256
                    ELSE 0]

IsNegative(w) == w[7] >= 128

\* Unsigned comparison of two words, most significant byte first.
RECURSIVE UnsignedLessFrom(_, _, _)
UnsignedLessFrom(a, b, k) ==
    IF k < 0 THEN FALSE
    ELSE IF a[k] # b[k] THEN a[k] < b[k]
    ELSE UnsignedLessFrom(a, b, k - 1)

\* a < b as int64 values.
SignedLess(a, b) ==
    IF IsNegative(a) # IsNegative(b) THEN IsNegative(a)
    ELSE UnsignedLessFrom(a, b, 7)

(***************************************************************************)
(* Order-preserving integer codec (key.go).                                *)
(***************************************************************************)
\* uint64(v) ^ signMask: signMask has only bit 63 set, the top bit of the most
\* significant byte.
EncodeIntToCmpUint_NoFlip(v) == v

EncodeIntToCmpUint(v) ==
    [v EXCEPT ![7] = IF v[7] >= 128 THEN v[7] - 128 ELSE v[7] + 128]

\* The bytes of u least significant first.
BigEndianPutUint64_LittleEndian(u) == [k \in 1..8 |-> u[k - 1]]

\* binary.BigEndian.PutUint64(data[:], u): data[0] is the most significant byte.
BigEndianPutUint64(u) == [k \in 1..8 |-> u[8 - k]]

\* EncodeInt(b, v): b with the 8 bytes of the comparable form of v appended.
EncodeInt(b, v) == b \o BigEndianPutUint64(EncodeIntToCmpUint(v))

(***************************************************************************)
(* strconv.ParseInt(s, 10, 64) on an unsigned digit string.                *)
(***************************************************************************)
\* The carry into byte k of w * 10 + d (k = 8: the carry out of the word).
RECURSIVE MulAddCarry(_, _, _)
MulAddCarry(w, d, k) ==
    IF k = 0 THEN d ELSE (w[k - 1] * 10 + MulAddCarry(w, d, k - 1)) \div 256

MulAdd10(w, d) == WordValue([k \in 0..7 |-> (w[k] * 10 + MulAddCarry(w, d, k)) % 256])

RECURSIVE ParseUintFrom(_, _, _)
ParseUintFrom(s, i, acc) ==
    IF i > Len(s) THEN [ok |-> TRUE, val |-> acc]
    ELSE IF ~IsDigit(s[i]) THEN [ok |-> FALSE, val |-> ZeroWord]
    ELSE IF MulAddCarry(acc, s[i] - 48, 8) > 0 THEN [ok |-> FALSE, val |-> ZeroWord]
    ELSE ParseUintFrom(s, i + 1, MulAdd10(acc, s[i] - 48))

\* ok is FALSE on the empty string, on a non-digit and on a value above 2^63 - 1.
ParseInt(s) ==
    IF s = <<>> THEN [ok |-> FALSE, val |-> ZeroWord]
    ELSE LET u == ParseUintFrom(s, 1, ZeroWord)
         IN  IF u.ok /\ IsNegative(u.val) THEN [ok |-> FALSE, val |-> ZeroWord] ELSE u

(***************************************************************************)
(* keyPattern = ^t(\d+)(?:_([ri])(\d+))?$                                  *)
(***************************************************************************)
\* The index of the last byte of the longest run of digits of s starting at i
\* (i - 1 when s[i] is no digit).
RECURSIVE DigitRunEnd(_, _)
DigitRunEnd(s, i) ==
    IF i <= Len(s) /\ IsDigit(s[i]) THEN DigitRunEnd(s, i + 1) ELSE i - 1

NoMatch == [matched |-> FALSE, m1 |-> <<>>, m2 |-> <<>>, m3 |-> <<>>]

\* The pattern without its closing anchor: what follows the id is not looked at.
FindStringSubmatch_Unanchored(input) ==
    IF Len(input) < 2 \/ input[1] # 116 THEN NoMatch
    ELSE LET j == DigitRunEnd(input, 2)
         IN  IF j < 2 THEN NoMatch
             ELSE IF Len(input) < j + 3 \/ input[j + 1] # 95
                       \/ input[j + 2] \notin {114, 105}
                       \/ DigitRunEnd(input, j + 3) < j + 3
                  THEN [matched |-> TRUE, m1 |-> SubSeq(input, 2, j),
                        m2 |-> <<>>, m3 |-> <<>>]
             ELSE [matched |-> TRUE, m1 |-> SubSeq(input, 2, j),
                   m2 |-> <<input[j + 2]>>,
                   m3 |-> SubSeq(input, j + 3, DigitRunEnd(input, j + 3))]

\* keyPattern.FindStringSubmatch(input): the groups, or no match (nil).
FindStringSubmatch(input) ==
    IF Len(input) < 2 \/ input[1] # 116 THEN NoMatch
    ELSE LET j == DigitRunEnd(input, 2)
         IN  IF j < 2 THEN NoMatch
             ELSE IF j = Len(input)
                  THEN [matched |-> TRUE, m1 |-> SubSeq(input, 2, j),
                        m2 |-> <<>>, m3 |-> <<>>]
             ELSE IF Len(input) < j + 3 THEN NoMatch
             ELSE IF input[j + 1] # 95 THEN NoMatch
             ELSE IF input[j + 2] \notin {114, 105} THEN NoMatch
             ELSE IF DigitRunEnd(input, j + 3) # Len(input) THEN NoMatch
             ELSE [matched |-> TRUE, m1 |-> SubSeq(input, 2, j),
                   m2 |-> <<input[j + 2]>>, m3 |-> SubSeq(input, j + 3, Len(input))]

(***************************************************************************)
(* ParseKey (key.go).  The result is the pair Go returns: err = "nil" on   *)
(* success, and the key is nil (the empty sequence) with any error.        *)
(***************************************************************************)
Ok(key) == [key |-> key, err |-> "nil"]
Fail(e) == [key |-> <<>>, err |-> e]

\* ParseKey writing the type marker without the separator before it.
ParseKey_NoSeparator(input) ==
    IF input = <<116>> THEN Ok(<<116>>)
    ELSE LET matches == FindStringSubmatch(input)
         IN  IF ~matches.matched THEN Fail("invalid key format")
             ELSE LET tableID == ParseInt(matches.m1)
                  IN  IF ~tableID.ok THEN Fail("invalid table ID")
                      ELSE LET buf == EncodeInt(<<116>>, tableID.val)
                           IN  IF matches.m2 = <<>> THEN Ok(buf)
                               ELSE LET idVal == ParseInt(matches.m3)
                                    IN  IF ~idVal.ok THEN Fail("invalid ID")
                                        ELSE Ok(EncodeInt(buf \o matches.m2, idVal.val))

ParseKey(input) ==
    IF input = <<116>> THEN Ok(<<116>>)
    ELSE LET matches == FindStringSubmatch(input)
         IN  IF ~matches.matched THEN Fail("invalid key format")
             ELSE LET tableID == ParseInt(matches.m1)
                  IN  IF ~tableID.ok THEN Fail("invalid table ID")
                      ELSE LET buf == EncodeInt(<<116>>, tableID.val)
                           IN  IF matches.m2 = <<>> THEN Ok(buf)
                               ELSE LET idVal == ParseInt(matches.m3)
                                    IN  IF ~idVal.ok THEN Fail("invalid ID")
                                        ELSE IF matches.m2 = <<114>>
                                             THEN Ok(EncodeInt(buf \o <<95, 114>>, idVal.val))
                                        ELSE IF matches.m2 = <<105>>
                                             THEN Ok(EncodeInt(buf \o <<95, 105>>, idVal.val))
                                        ELSE Fail("unknown type marker")

(***************************************************************************)
(* strconv.FormatInt(v, 10) and encoding/hex.                              *)
(***************************************************************************)
\* The remainder, modulo 10, of the bytes of w above byte k.
RECURSIVE DivRemAbove(_, _)
DivRemAbove(w, k) ==
    IF k = 7 THEN 0 ELSE (DivRemAbove(w, k + 1) * 256 + w[k + 1]) % 10

Div10(w) == WordValue([k \in 0..7 |-> (DivRemAbove(w, k) * 256 + w[k]) \div 10])
Mod10(w) == (DivRemAbove(w, 0) * 256 + w[0]) % 10

RECURSIVE FormatUintDigits(_)
FormatUintDigits(w) ==
    IF w = ZeroWord THEN <<>> ELSE Append(FormatUintDigits(Div10(w)), 48 + Mod10(w))

FormatUint(w) == IF w = ZeroWord THEN <<48>> ELSE FormatUintDigits(w)

\* The carry into byte k of (NOT w) + 1.
RECURSIVE NegCarry(_, _)
NegCarry(w, k) ==
    IF k = 0 THEN 1 ELSE ((255 - w[k - 1]) + NegCarry(w, k - 1)) \div 256

\* -v as a word (the magnitude of a negative v, as uint64).
Negate(w) == WordValue([k \in 0..7 |-> ((255 - w[k]) + NegCarry(w, k)) % 256])

FormatInt(v) == IF IsNegative(v) THEN <<45>> \o FormatUint(Negate(v)) ELSE FormatUint(v)

HexDigit(n) == IF n < 10 THEN 48 + n ELSE 87 + n

\* hex.EncodeToString(b): two lowercase hex digits per byte.
RECURSIVE HexEncodeToString(_)
HexEncodeToString(b) ==
    IF b = <<>> THEN <<>>
    ELSE <<HexDigit(Head(b) \div 16), HexDigit(Head(b) % 16)>> \o HexEncodeToString(Tail(b))

(***************************************************************************)
(* The datum codec of github.com/pingcap/tidb/pkg/util/codec, as the       *)
(* repository calls it: EncodeKey, Decode and Datum.ToString for the kinds *)
(* null (flag 0x00), bytes (0x01), int64 (0x03) and uint64 (0x04).  Every  *)
(* other flag byte is an invalid flag to this model, which is what the     *)
(* library answers for every byte outside {0x02, 0x05..0x0a, 0x14, 0xfa}:  *)
(* the input sets below never hold those bytes.                            *)
(***************************************************************************)
IntDatum(v) == [kind |-> "int", val |-> v]
UintDatum(v) == [kind |-> "uint", val |-> v]
BytesDatum(b) == [kind |-> "bytes", val |-> b]
NullDatum == [kind |-> "null", val |-> <<>>]

\* binary.BigEndian.Uint64(b[:8]).
BigEndianUint64(b) == WordValue([k \in 0..7 |-> b[8 - k]])

\* codec.EncodeBytes(nil, data): groups of 8 bytes, the last padded with zeros,
\* each followed by the marker 0xFF - padCount.
RECURSIVE EncodeBytes(_)
EncodeBytes(data) ==
    IF Len(data) >= 8
    THEN Take(data, 8) \o <<255>> \o EncodeBytes(Drop(data, 8))
    ELSE data \o [k \in 1..(8 - Len(data)) |-> 0] \o <<255 - (8 - Len(data))>>

\* codec.EncodeKey(loc, b, d) for one datum.
EncodeDatum(b, d) ==
    CASE d.kind = "int" -> EncodeInt(b \o <<3>>, d.val)
      [] d.kind = "uint" -> b \o <<4>> \o BigEndianPutUint64(d.val)
      [] d.kind = "bytes" -> b \o <<1>> \o EncodeBytes(d.val)
      [] d.kind = "null" -> b \o <<0>>

\* codec.EncodeKey(loc, b, datums...).
RECURSIVE EncodeKey(_, _)
EncodeKey(b, datums) ==
    IF datums = <<>> THEN b ELSE EncodeKey(EncodeDatum(b, Head(datums)), Tail(datums))

DecodeFail == [ok |-> FALSE, remain |-> <<>>, val |-> <<>>]

\* codec.DecodeBytes(b, nil): [ok, remain, val].
RECURSIVE DecodeBytes(_, _)
DecodeBytes(b, buf) ==
    IF Len(b) < 9 THEN DecodeFail
    ELSE LET group == Take(b, 8)
             padCount == 255 - b[9]
             realGroupSize == 8 - padCount
         IN  IF padCount > 8 THEN DecodeFail
             ELSE IF padCount = 0 THEN DecodeBytes(Drop(b, 9), buf \o group)
             ELSE IF \E k \in (realGroupSize + 1)..8 : group[k] # 0 THEN DecodeFail
             ELSE [ok |-> TRUE, remain |-> Drop(b, 9),
                   val |-> buf \o Take(group, realGroupSize)]

\* codec.DecodeOne(b): [ok, remain, val], val the datum.
DecodeOne(b) ==
    IF Len(b) < 1 THEN DecodeFail
    ELSE LET flag == b[1]
             rest == Tail(b)
         IN  CASE flag = 3 ->
                    IF Len(rest) < 8 THEN DecodeFail
                    ELSE [ok |-> TRUE, remain |-> Drop(rest, 8),
                          val |-> IntDatum(EncodeIntToCmpUint(BigEndianUint64(rest)))]
               [] flag = 4 ->
                    IF Len(rest) < 8 THEN DecodeFail
                    ELSE [ok |-> TRUE, remain |-> Drop(rest, 8),
                          val |-> UintDatum(BigEndianUint64(rest))]
               [] flag = 1 ->
                    LET r == DecodeBytes(rest, <<>>)
                    IN  IF r.ok THEN [r EXCEPT !.val = BytesDatum(r.val)] ELSE DecodeFail
               [] flag = 0 -> [ok |-> TRUE, remain |-> rest, val |-> NullDatum]
               [] OTHER -> DecodeFail

\* codec.Decode(b, size): every datum of b, or an error when b is empty or any
\* part of it fails to decode (size is only a capacity hint).
RECURSIVE DecodeAll(_, _)
DecodeAll(b, values) ==
    IF b = <<>> THEN [ok |-> TRUE, datums |-> values]
    ELSE LET r == DecodeOne(b)
         IN  IF ~r.ok THEN [ok |-> FALSE, datums |-> <<>>]
             ELSE DecodeAll(r.remain, Append(values, r.val))

Decode(b) == IF Len(b) < 1 THEN [ok |-> FALSE, datums |-> <<>>] ELSE DecodeAll(b, <<>>)

\* Datum.ToString(), its error dropped: a NULL datum gives "".
DatumToString(d) ==
    CASE d.kind = "int" -> FormatInt(d.val)
      [] d.kind = "uint" -> FormatUint(d.val)
      [] d.kind = "bytes" -> d.val
      [] d.kind = "null" -> <<>>

(***************************************************************************)
(* scrapeMemComparable (value.go).  st = [i, foundValues, found] is the    *)
(* loop's state, i the 0-based cursor.                                     *)
(***************************************************************************)
\* The loop body leaving the cursor where it is when nothing decodes.
ScrapeStep_NoAdvance(data, st) ==
    LET r == Decode(Drop(data, st.i))
    IN  IF r.ok /\ Len(r.datums) > 0
        THEN LET d == r.datums[1]
                 encoded == EncodeKey(<<>>, <<d>>)
             IN  [i |-> IF Len(encoded) <= 0 THEN st.i + 1 ELSE st.i + Len(encoded),
                  foundValues |-> Append(st.foundValues, DatumToString(d)),
                  found |-> TRUE]
        ELSE st

\* The loop body giving up at the first position that does not decode.
ScrapeStep_StopOnFailure(data, st) ==
    LET r == Decode(Drop(data, st.i))
    IN  IF r.ok /\ Len(r.datums) > 0
        THEN LET d == r.datums[1]
                 encoded == EncodeKey(<<>>, <<d>>)
             IN  [i |-> IF Len(encoded) <= 0 THEN st.i + 1 ELSE st.i + Len(encoded),
                  foundValues |-> Append(st.foundValues, DatumToString(d)),
                  found |-> TRUE]
        ELSE [st EXCEPT !.i = Len(data)]

\* One iteration of the loop at cursor st.i < len(data).
ScrapeStep(data, st) ==
    LET r == Decode(Drop(data, st.i))
    IN  IF r.ok /\ Len(r.datums) > 0
        THEN LET d == r.datums[1]
                 encoded == EncodeKey(<<>>, <<d>>)
             IN  [i |-> IF Len(encoded) <= 0 THEN st.i + 1 ELSE st.i + Len(encoded),
                  foundValues |-> Append(st.foundValues, DatumToString(d)),
                  found |-> TRUE]
        ELSE [st EXCEPT !.i = st.i + 1]

RECURSIVE ScrapeLoop(_, _)
ScrapeLoop(data, st) ==
    IF st.i < Len(data) THEN ScrapeLoop(data, ScrapeStep(data, st)) ELSE st

\* [vals, found]; vals is nil (the empty sequence) when nothing was found.
scrapeMemComparable(data) ==
    IF Len(data) = 0 THEN [vals |-> <<>>, found |-> FALSE]
    ELSE LET st == ScrapeLoop(data, [i |-> 0, foundValues |-> <<>>, found |-> FALSE])
         IN  IF st.found THEN [vals |-> st.foundValues, found |-> TRUE]
             ELSE [vals |-> <<>>, found |-> FALSE]

(***************************************************************************)
(* parseRowV2Structure (value.go).  Positions are 0-based as in the code;  *)
(* At(data, p) is data[p].                                                 *)
(***************************************************************************)
At(data, p) == data[p + 1]

\* data[from:to].
Slice(data, from, to) == SubSeq(data, from + 1, to)

LittleEndianUint16(data, p) == At(data, p) + 256 * At(data, p + 1)

\* int64(binary.LittleEndian.Uint32(data[p:p+4])), for ids below 2^31.
LittleEndianUint32(data, p) ==
    At(data, p) + 256 * At(data, p + 1) + 65536 * At(data, p + 2)
        + 16777216 * At(data, p + 3)

RowFail == [ok |-> FALSE, ids |-> <<>>, cursor |-> 0]

\* The loop reading numSmall one-byte ids from cursor: [ok, ids, cursor].
RECURSIVE ReadSmallIDs(_, _, _, _)
ReadSmallIDs(data, n, cursor, ids) ==
    IF n = 0 THEN [ok |-> TRUE, ids |-> ids, cursor |-> cursor]
    ELSE IF cursor >= Len(data) THEN RowFail
    ELSE ReadSmallIDs(data, n - 1, cursor + 1, Append(ids, At(data, cursor)))

\* The loop reading numLarge four-byte ids from cursor.
RECURSIVE ReadLargeIDs(_, _, _, _)
ReadLargeIDs(data, n, cursor, ids) ==
    IF n = 0 THEN [ok |-> TRUE, ids |-> ids, cursor |-> cursor]
    ELSE IF cursor + 4 >= Len(data) THEN RowFail
    ELSE ReadLargeIDs(data, n - 1, cursor + 4,
                      Append(ids, LittleEndianUint32(data, cursor)))

\* The loop reading numCols two-byte offsets from cursor (ids holds the offsets).
RECURSIVE ReadOffsets(_, _, _, _)
ReadOffsets(data, n, cursor, offsets) ==
    IF n = 0 THEN [ok |-> TRUE, ids |-> offsets, cursor |-> cursor]
    ELSE IF cursor + 2 > Len(data) THEN RowFail
    ELSE ReadOffsets(data, n - 1, cursor + 2,
                     Append(offsets, LittleEndianUint16(data, cursor)))

\* The bounds checks without the comparison of start and end.
ColumnInBounds_NoOrder(data, offsets, valueStartBase, i) ==
    valueStartBase + offsets[i] <= Len(data)

\* The bounds checks of column i of the last loop.
ColumnInBounds(data, offsets, valueStartBase, i) ==
    LET previousOffset == IF i = 1 THEN 0 ELSE offsets[i - 1]
        startPos == valueStartBase + previousOffset
        endPos == valueStartBase + offsets[i]
    IN  endPos <= Len(data) /\ startPos <= endPos

\* The bytes of column i with the offsets measured from the start of the row.
ColumnBytes_FromRowStart(data, offsets, valueStartBase, i) ==
    LET previousOffset == IF i = 1 THEN 0 ELSE offsets[i - 1]
    IN  Slice(data, previousOffset, offsets[i])

\* The bytes of column i.
ColumnBytes(data, offsets, valueStartBase, i) ==
    LET previousOffset == IF i = 1 THEN 0 ELSE offsets[i - 1]
    IN  Slice(data, valueStartBase + previousOffset, valueStartBase + offsets[i])

\* colMap keeping the first occurrence of an id instead of the last.
ColMap_FirstWins(data, allIDs, offsets, valueStartBase) ==
    [id \in {allIDs[k] : k \in 1..Len(allIDs)} |->
        LET first == CHOOSE k \in 1..Len(allIDs) :
                        /\ allIDs[k] = id
                        /\ \A m \in 1..(k - 1) : allIDs[m] # id
        IN  ColumnBytes(data, offsets, valueStartBase, first)]

\* colMap after the last loop: a later occurrence of an id overwrites an earlier.
ColMap(data, allIDs, offsets, valueStartBase) ==
    [id \in {allIDs[k] : k \in 1..Len(allIDs)} |->
        LET last == CHOOSE k \in 1..Len(allIDs) :
                        /\ allIDs[k] = id
                        /\ \A m \in (k + 1)..Len(allIDs) : allIDs[m] # id
        IN  ColumnBytes(data, offsets, valueStartBase, last)]

EmptyMap == [id \in {} |-> <<>>]

\* [ok, cols]: cols maps each column id to its bytes; ok = FALSE is the error.
parseRowV2Structure(data) ==
    IF Len(data) < 6 THEN [ok |-> FALSE, cols |-> EmptyMap]
    ELSE LET numSmall == LittleEndianUint16(data, 2)
             numLarge == LittleEndianUint16(data, 4)
             small == ReadSmallIDs(data, numSmall, 6, <<>>)
         IN  IF ~small.ok THEN [ok |-> FALSE, cols |-> EmptyMap]
             ELSE LET large == ReadLargeIDs(data, numLarge, small.cursor, <<>>)
                  IN  IF ~large.ok THEN [ok |-> FALSE, cols |-> EmptyMap]
                      ELSE LET allIDs == small.ids \o large.ids
                               offs == ReadOffsets(data, Len(allIDs), large.cursor, <<>>)
                           IN  IF ~offs.ok THEN [ok |-> FALSE, cols |-> EmptyMap]
                               ELSE IF \E i \in 1..Len(allIDs) :
                                          ~ColumnInBounds(data, offs.ids, offs.cursor, i)
                                    THEN [ok |-> FALSE, cols |-> EmptyMap]
                               ELSE [ok |-> TRUE,
                                     cols |-> ColMap(data, allIDs, offs.ids, offs.cursor)]

(***************************************************************************)
(* trySmartDecode and its helpers (value.go).                              *)
(***************************************************************************)
IsCont(b, i) == i <= Len(b) /\ b[i] >= 128 /\ b[i] <= 191

\* unicode/utf8.Valid(b), from position i.
RECURSIVE Utf8ValidFrom(_, _)
Utf8ValidFrom(b, i) ==
    IF i > Len(b) THEN TRUE
    ELSE LET c == b[i]
         IN  IF c < 128 THEN Utf8ValidFrom(b, i + 1)
             ELSE IF c >= 194 /\ c <= 223
                  THEN IsCont(b, i + 1) /\ Utf8ValidFrom(b, i + 2)
             ELSE IF c >= 224 /\ c <= 239
                  THEN /\ IsCont(b, i + 1) /\ IsCont(b, i + 2)
                       /\ (c = 224 => b[i + 1] >= 160)
                       /\ (c = 237 => b[i + 1] <= 159)
                       /\ Utf8ValidFrom(b, i + 3)
             ELSE IF c >= 240 /\ c <= 244
                  THEN /\ IsCont(b, i + 1) /\ IsCont(b, i + 2) /\ IsCont(b, i + 3)
                       /\ (c = 240 => b[i + 1] >= 144)
                       /\ (c = 244 => b[i + 1] <= 143)
                       /\ Utf8ValidFrom(b, i + 4)
             ELSE FALSE

ControlCount(b) ==
    Cardinality({k \in 1..Len(b) : b[k] < 32 /\ b[k] \notin {10, 13, 9}})

\* float64(controlCount)/float64(len(b)) < 0.1, for len(b) > 0.
isLooksLikeString(b) == Utf8ValidFrom(b, 1) /\ 10 * ControlCount(b) < Len(b)

\* strconv.Quote's rendering of one byte of an ASCII string.
QuoteByte(c) ==
    CASE c = 34 -> <<92, 34>>
      [] c = 92 -> <<92, 92>>
      [] c = 7 -> <<92, 97>>
      [] c = 8 -> <<92, 98>>
      [] c = 12 -> <<92, 102>>
      [] c = 10 -> <<92, 110>>
      [] c = 13 -> <<92, 114>>
      [] c = 9 -> <<92, 116>>
      [] c = 11 -> <<92, 118>>
      [] c < 32 \/ c = 127 -> <<92, 120, HexDigit(c \div 16), HexDigit(c % 16)>>
      [] OTHER -> <<c>>

RECURSIVE QuoteBody(_)
QuoteBody(b) == IF b = <<>> THEN <<>> ELSE QuoteByte(Head(b)) \o QuoteBody(Tail(b))

\* fmt.Sprintf("%q", string(b)): exact for ASCII; the bytes of a longer rune are
\* kept as they are.
Quote(b) == <<34>> \o QuoteBody(b) \o <<34>>

\* The little-endian signed integer of the n = len(b) bytes of b, as an int64.
SignedLittleEndian(b) ==
    [k \in 0..7 |-> IF k < Len(b) THEN b[k + 1]
                    ELSE IF b[Len(b)] >= 128 THEN 255 ELSE 0]

\* The guarded decode taking a Value too short to hold an element count for a
\* document with no elements.
safeDecodeJson_NoLengthCheck(b) ==
    LET Value == Tail(b)
    IN  IF Len(Value) < 4 \/ Take(Value, 4) = <<0, 0, 0, 0>>
        THEN [ok |-> TRUE, str |-> IF b[1] = 1 THEN <<123, 125>> ELSE <<91, 93>>]
        ELSE [ok |-> FALSE, str |-> <<>>]

\* safeDecodeJson: [ok, str].  types.BinaryJSON.String() of an object (0x01) or
\* array (0x03) reads the element count from Value[0:4] and panics when Value is
\* shorter; with no elements it prints the empty document; with elements it reads
\* entries from Value[8:] on, and panics on a Value of at most 8 bytes.  Longer
\* values with elements are outside the model and count as a failed decode.
safeDecodeJson(b) ==
    LET Value == Tail(b)
    IN  IF Len(Value) < 4 THEN [ok |-> FALSE, str |-> <<>>]
        ELSE IF Take(Value, 4) = <<0, 0, 0, 0>>
             THEN [ok |-> TRUE, str |-> IF b[1] = 1 THEN <<123, 125>> ELSE <<91, 93>>]
        ELSE [ok |-> FALSE, str |-> <<>>]

StrNullEmpty == Str(<<"N", "U", "L", "L", "/", "E", "m", "p", "t", "y">>)
StrInt == Str(<<"I", "n", "t", ":", " ">>)
StrStr == Str(<<" ", "S", "t", "r", ":", " ">>)
StrHexOpen == <<32, 40>> \o Str(<<"H", "e", "x", ":", " ", "0", "x">>)
StrLenOpen == <<46, 46, 46, 32, 40>> \o Str(<<"l", "e", "n", "=">>)

\* The rules with the integer rule answering before the string rule is tried.
SmartDecodeTail_IntFirst(b) ==
    LET isInteger == Len(b) \in {1, 2, 4, 8}
        intValStr == IF isInteger THEN FormatInt(SignedLittleEndian(b)) ELSE <<>>
    IN  IF isInteger
        THEN StrInt \o intValStr \o StrHexOpen \o HexEncodeToString(b) \o <<41>>
        ELSE IF isLooksLikeString(b) THEN Quote(b)
        ELSE IF Len(b) <= 8 THEN <<48, 120>> \o HexEncodeToString(b)
        ELSE <<48, 120>> \o HexEncodeToString(Take(b, 8)) \o StrLenOpen
                 \o FormatUint(WordOfNat(Len(b))) \o <<41>>

\* Rules 2 to 5 of trySmartDecode: integer candidacy, string, hex.
SmartDecodeTail(b) ==
    LET isInteger == Len(b) \in {1, 2, 4, 8}
        intValStr == IF isInteger THEN FormatInt(SignedLittleEndian(b)) ELSE <<>>
    IN  IF isLooksLikeString(b)
        THEN IF isInteger THEN StrInt \o intValStr \o StrStr \o Quote(b) ELSE Quote(b)
        ELSE IF isInteger
             THEN StrInt \o intValStr \o StrHexOpen \o HexEncodeToString(b) \o <<41>>
        ELSE IF Len(b) <= 8 THEN <<48, 120>> \o HexEncodeToString(b)
        ELSE <<48, 120>> \o HexEncodeToString(Take(b, 8)) \o StrLenOpen
                 \o FormatUint(WordOfNat(Len(b))) \o <<41>>

trySmartDecode(b) ==
    IF Len(b) = 0 THEN StrNullEmpty
    ELSE IF b[1] \in {1, 3} /\ safeDecodeJson(b).ok THEN safeDecodeJson(b).str
    ELSE SmartDecodeTail(b)

(***************************************************************************)
(* decodeRowV2 and DecodeValue (value.go).                                 *)
(***************************************************************************)
\* decodeRowV2 with the failed parse reported under column 0 instead of -1.
decodeRowV2_SentinelZero(val) ==
    LET r == parseRowV2Structure(val)
    IN  IF r.ok THEN [i \in DOMAIN r.cols |-> trySmartDecode(r.cols[i])]
        ELSE [i \in {0} |-> HexEncodeToString(val)]

\* RowV2Data.Columns: column id -> display string.
decodeRowV2(val) ==
    LET r == parseRowV2Structure(val)
    IN  IF r.ok THEN [i \in DOMAIN r.cols |-> trySmartDecode(r.cols[i])]
        ELSE [i \in {-1} |-> HexEncodeToString(val)]

\* DecodeValue with the datum scanner tried before the nested-row rule.
DecodeValue_ScanFirst(value) ==
    IF Len(value) = 0 THEN [Type |-> "null", Payload |-> <<>>]
    ELSE IF value[1] = 128 THEN [Type |-> "row_v2", Payload |-> decodeRowV2(value)]
    ELSE LET s == scrapeMemComparable(value)
         IN  IF s.found THEN [Type |-> "index", Payload |-> s.vals]
             ELSE IF Len(value) > 1 /\ value[1] = 0 /\ value[2] = 128
                  THEN [Type |-> "row_v2", Payload |-> decodeRowV2(Tail(value))]
             ELSE [Type |-> "raw", Payload |-> HexEncodeToString(value)]

\* DecodeValue with the envelope byte 0x00 left in front of the nested row.
DecodeValue_NoStrip(value) ==
    IF Len(value) = 0 THEN [Type |-> "null", Payload |-> <<>>]
    ELSE IF value[1] = 128 THEN [Type |-> "row_v2", Payload |-> decodeRowV2(value)]
    ELSE IF Len(value) > 1 /\ value[1] = 0 /\ value[2] = 128
         THEN [Type |-> "row_v2", Payload |-> decodeRowV2(value)]
    ELSE LET s == scrapeMemComparable(value)
         IN  IF s.found THEN [Type |-> "index", Payload |-> s.vals]
             ELSE [Type |-> "raw", Payload |-> HexEncodeToString(value)]

\* DecodedValue: Payload is nil (the empty sequence) for Type null.
DecodeValue(value) ==
    IF Len(value) = 0 THEN [Type |-> "null", Payload |-> <<>>]
    ELSE IF value[1] = 128 THEN [Type |-> "row_v2", Payload |-> decodeRowV2(value)]
    ELSE IF Len(value) > 1 /\ value[1] = 0 /\ value[2] = 128
         THEN [Type |-> "row_v2", Payload |-> decodeRowV2(Tail(value))]
    ELSE LET s == scrapeMemComparable(value)
         IN  IF s.found THEN [Type |-> "index", Payload |-> s.vals]
             ELSE [Type |-> "raw", Payload |-> HexEncodeToString(value)]

(***************************************************************************)
(* Input sets of the value decoder.                                        *)
(***************************************************************************)
\* No byte of a scanned value is a datum flag outside the modelled kinds.
ValueAlphabet == {0, 1, 3, 65, 128, 255}

LE16(n) == <<n % 256, n \div 256>>
LE32(n) == <<n % 256, (n \div 256) % 256, (n \div 65536) % 256, n \div 16777216>>

RECURSIVE Flatten(_)
Flatten(ss) == IF ss = <<>> THEN <<>> ELSE Head(ss) \o Flatten(Tail(ss))

\* A row in the packed layout with the given ids, end offsets and value blob.
RowBytes(smallIDs, largeIDs, offsets, blob) ==
    <<128, 0>> \o LE16(Len(smallIDs)) \o LE16(Len(largeIDs)) \o smallIDs
        \o Flatten([k \in 1..Len(largeIDs) |-> LE32(largeIDs[k])])
        \o Flatten([k \in 1..Len(offsets) |-> LE16(offsets[k])]) \o blob

SmallIDLists == {<<>>, <<2>>, <<2, 3>>, <<3, 3>>}
LargeIDLists == {<<>>, <<3>>, <<300>>}

\* The row of TestDecodeValue: column 2 = "Aaliyah Mueller", column 3 = 01.
ExampleRow ==
    RowBytes(<<2, 3>>, <<>>, <<15, 16>>,
             Str(<<"A", "a", "l", "i", "y", "a", "h", " ",
                   "M", "u", "e", "l", "l", "e", "r">>) \o <<1>>)

\* Well-formed and malformed rows: any offsets, and up to MaxTrunc bytes cut off.
RowInputs ==
    {ExampleRow} \cup
    UNION {UNION {{Take(RowBytes(sm, lg, offs, blob), Len(RowBytes(sm, lg, offs, blob)) - cut) :
                       offs \in [1..(Len(sm) + Len(lg)) -> 0..MaxOffset],
                       blob \in SeqsUpTo({1, 65}, MaxBlob),
                       cut \in 0..MaxTrunc} :
                  sm \in SmallIDLists} :
           lg \in LargeIDLists}

SampleDatums ==
    {IntDatum(WordOfNat(100)), IntDatum(WordOfNat(200)),
     IntDatum(Negate(WordOfNat(1))), BytesDatum(<<65>>)}

\* Encoded datum sequences, with garbage before and after.
DatumInputs ==
    {g \o EncodeKey(<<>>, ds) \o t :
        g \in {<<>>, <<255, 255>>, <<170, 187>>},
        ds \in SeqsUpTo(SampleDatums, MaxDatums),
        t \in {<<>>, <<255>>, <<0>>}}

ValueInputs ==
    SeqsUpTo(ValueAlphabet, MaxValueLen) \cup DatumInputs
        \cup RowInputs \cup {<<0>> \o r : r \in RowInputs}

(***************************************************************************)
(* The value decoder's specification: a value is drawn and one of the      *)
(* decoder's entry points is applied to it.                                *)
(***************************************************************************)
None == <<>>

InitValue == op = "init" /\ arg \in ValueInputs /\ res = None

CallDecodeValue ==
    /\ op = "init"
    /\ op' = "DecodeValue"
    /\ res' = DecodeValue(arg)
    /\ UNCHANGED arg

\* decodeRowV2 with the parse it rests on.
CallDecodeRowV2 ==
    /\ op = "init"
    /\ op' = "decodeRowV2"
    /\ res' = [parse |-> parseRowV2Structure(arg), row |-> decodeRowV2(arg)]
    /\ UNCHANGED arg

\* DecodeValue of a payload that starts with 0x80, bare and in the 0x00 envelope.
CallDecodeNested ==
    /\ op = "init"
    /\ arg # <<>> /\ arg[1] = 128
    /\ op' = "DecodeNested"
    /\ res' = [plain |-> DecodeValue(arg), nested |-> DecodeValue(<<0>> \o arg)]
    /\ UNCHANGED arg

NextValue == CallDecodeValue \/ CallDecodeRowV2 \/ CallDecodeNested

SpecValue == InitValue /\ [][NextValue]_vars

(***************************************************************************)
(* Properties of the value decoder.                                        *)
(***************************************************************************)
\* C1: DecodeValue maps every byte sequence to exactly one DecodedValue, chosen by
\* the first applicable rule: null with a nil payload iff the value is empty; else
\* row_v2 with the packed-row decode of the value iff its first byte is 0x80; else
\* row_v2 with the packed-row decode of value[1:] iff it is longer than one byte
\* and starts 0x00 0x80; else index with the scanner's sequence iff the datum
\* scanner reports found; else raw with the hex of the whole value.
C1_DecodeValueDispatch ==
    op = "DecodeValue" =>
        /\ res.Type \in {"null", "row_v2", "index", "raw"}
        /\ (res.Type = "null") <=> (arg = <<>>)
        /\ arg = <<>> => res.Payload = <<>>
        /\ arg # <<>> =>
             IF arg[1] = 128
             THEN res.Type = "row_v2" /\ res.Payload = decodeRowV2(arg)
             ELSE IF Len(arg) > 1 /\ arg[1] = 0 /\ arg[2] = 128
                  THEN res.Type = "row_v2" /\ res.Payload = decodeRowV2(Tail(arg))
             ELSE IF scrapeMemComparable(arg).found
                  THEN res.Type = "index" /\ res.Payload = scrapeMemComparable(arg).vals
             ELSE res.Type = "raw" /\ res.Payload = HexEncodeToString(arg)

\* A value in the 0x00 envelope whose bytes end in a datum the scanner would find
\* (a trailing 0x00) is decoded as a row, by the earlier rule.
C1_Witness ==
    /\ op = "DecodeValue"
    /\ Len(arg) > 2 /\ arg[1] = 0 /\ arg[2] = 128
    /\ scrapeMemComparable(arg).found
    /\ res.Type = "row_v2"

\* C2: decodeRowV2 reports no error: when the packed-row parse of its input fails
\* the row has exactly one column, -1, holding the lowercase hex of the whole
\* input; and column -1 appears only when the parse failed (a successful parse
\* yields only non-negative column ids).
C2_SentinelOnFailure ==
    op = "decodeRowV2" =>
        /\ ~res.parse.ok =>
              /\ DOMAIN res.row = {-1}
              /\ res.row[-1] = HexEncodeToString(arg)
        /\ res.parse.ok => \A id \in DOMAIN res.row : id >= 0
        /\ res.parse.ok => DOMAIN res.row = DOMAIN res.parse.cols

\* The too-short row 80 FF gives the single column -1 = "80ff".
C2_Witness ==
    /\ op = "decodeRowV2"
    /\ arg = <<128, 255>>
    /\ ~res.parse.ok
    /\ res.row[-1] = <<56, 48, 102, 102>>

\* C3: for every payload p that starts with 0x80, well-formed row or not,
\* DecodeValue(0x00 ++ p) equals DecodeValue(p): the same type row_v2 and the same
\* column map, the 0x00 appearing in no column value nor in the sentinel hex.
C3_NestedEnvelope ==
    op = "DecodeNested" =>
        /\ res.plain.Type = "row_v2"
        /\ res.nested.Type = "row_v2"
        /\ res.nested.Payload = res.plain.Payload
        /\ -1 \in DOMAIN res.nested.Payload =>
               res.nested.Payload[-1] = HexEncodeToString(arg)

\* The example row, and some malformed row, have been decoded in the envelope.
C3_Witness ==
    /\ op = "DecodeNested"
    /\ \/ /\ arg = ExampleRow
          /\ DOMAIN res.nested.Payload = {2, 3}
       \/ /\ -1 \in DOMAIN res.nested.Payload
          /\ Len(arg) >= 6

(***************************************************************************)
(* ParsePrefix and DecodeKey.  key.go calls neither into being: only their *)
(* callers (main.go) and tests (key_test.go) are at hand, so both follow   *)
(* the key codec's description (spec section 4.2), and where that and the  *)
(* tests differ ("t1_r_" and "t1_i_" are errors in TestParsePrefix) the    *)
(* tests decide.                                                           *)
(***************************************************************************)
\* strings.Split(s, "_"), the segment being built in cur.
RECURSIVE SplitFrom(_, _, _)
SplitFrom(s, i, cur) ==
    IF i > Len(s) THEN <<cur>>
    ELSE IF s[i] = 95 THEN <<cur>> \o SplitFrom(s, i + 1, <<>>)
    ELSE SplitFrom(s, i + 1, Append(cur, s[i]))

Split(s) == SplitFrom(s, 1, <<>>)

AllDigits(s) == s # <<>> /\ \A k \in 1..Len(s) : IsDigit(s[k])

\* The datums of the segments after an index id; empty segments are skipped.
\* [ok, datums].
RECURSIVE DatumLiterals(_, _)
DatumLiterals(parts, acc) ==
    IF parts = <<>> THEN [ok |-> TRUE, datums |-> acc]
    ELSE LET p == Head(parts)
         IN  IF p = <<>> THEN DatumLiterals(Tail(parts), acc)
             ELSE IF AllDigits(p)
                  THEN IF ParseInt(p).ok
                       THEN DatumLiterals(Tail(parts), Append(acc, IntDatum(ParseInt(p).val)))
                       ELSE [ok |-> FALSE, datums |-> <<>>]
             ELSE DatumLiterals(Tail(parts), Append(acc, BytesDatum(p)))

\* The lenient (scan prefix) parse.
ParsePrefix(input) ==
    IF input = <<116>> THEN Ok(<<116>>)
    ELSE LET parts == Split(input)
             first == parts[1]
         IN  IF ~(Len(first) >= 2 /\ first[1] = 116 /\ AllDigits(Tail(first)))
             THEN Fail("InvalidPrefix")
             ELSE IF ~ParseInt(Tail(first)).ok THEN Fail("InvalidInteger")
             ELSE LET buf == EncodeInt(<<116>>, ParseInt(Tail(first)).val)
                  IN  IF Len(parts) = 1 THEN Ok(buf)
                      ELSE IF Len(parts) = 2 /\ parts[2] = <<>> THEN Ok(buf \o <<95>>)
                      ELSE IF parts[2] = <<>> \/ parts[2][1] \notin {114, 105}
                           THEN Fail("UnknownTypeMarker")
                      ELSE LET marker == parts[2][1]
                               idStr == Tail(parts[2])
                               typed == buf \o <<95, marker>>
                           IN  IF idStr = <<>>
                               THEN IF Len(parts) = 2 THEN Ok(typed)
                                    ELSE Fail("UnexpectedSuffix")
                               ELSE IF ~AllDigits(idStr) \/ ~ParseInt(idStr).ok
                                    THEN Fail("InvalidInteger")
                               ELSE LET withID == EncodeInt(typed, ParseInt(idStr).val)
                                        ds == DatumLiterals(Drop(parts, 2), <<>>)
                                    IN  IF marker = 114
                                        THEN IF Len(parts) > 2 THEN Fail("UnexpectedSuffix")
                                             ELSE Ok(withID)
                                        ELSE IF ~ds.ok THEN Fail("InvalidInteger")
                                        ELSE Ok(EncodeKey(withID, ds.datums))

\* codec.DecodeInt of the first 8 bytes of b.
DecodeInt(b) == EncodeIntToCmpUint(BigEndianUint64(b))

\* "_" ++ v for each v, in order.
RECURSIVE JoinWithUnderscore(_)
JoinWithUnderscore(vals) ==
    IF vals = <<>> THEN <<>> ELSE <<95>> \o Head(vals) \o JoinWithUnderscore(Tail(vals))

\* The physical key as a logical key string; what fails to parse is hex-dumped.
DecodeKey(key) ==
    IF Len(key) < 9 \/ key[1] # 116 THEN HexEncodeToString(key)
    ELSE LET table == <<116>> \o FormatInt(DecodeInt(SubSeq(key, 2, 9)))
             rest == Drop(key, 9)
             body == Drop(rest, 2)
         IN  IF rest = <<>> THEN table
             ELSE IF Len(rest) >= 2 /\ Take(rest, 2) = <<95, 114>>
                  THEN IF Len(body) >= 8
                       THEN table \o <<95, 114>> \o FormatInt(DecodeInt(Take(body, 8)))
                                \o HexEncodeToString(Drop(body, 8))
                       ELSE table \o HexEncodeToString(body)
             ELSE IF Len(rest) >= 2 /\ Take(rest, 2) = <<95, 105>>
                  THEN LET hasID == Len(body) >= 8
                           index == IF hasID
                                    THEN <<95, 105>> \o FormatInt(DecodeInt(Take(body, 8)))
                                    ELSE <<95, 63, 63, 63>>
                           vals == IF hasID THEN Drop(body, 8) ELSE body
                           s == scrapeMemComparable(vals)
                       IN  IF s.found THEN table \o index \o JoinWithUnderscore(s.vals)
                           ELSE table \o index \o HexEncodeToString(vals)
             ELSE table \o HexEncodeToString(rest)

(***************************************************************************)
(* Input sets of the key codec.                                            *)
(***************************************************************************)
\* t x _ r i 1
KeyAlphabet == {116, 120, 95, 114, 105, 49}

\* 1, 12, 007, 132, and 2^63 - 1 and 2^63, the last beyond int64.
DigitStrs ==
    {DecStr(<<1>>), DecStr(<<1, 2>>), DecStr(<<0, 0, 7>>), DecStr(<<1, 3, 2>>),
     DecStr(<<9, 2, 2, 3, 3, 7, 2, 0, 3, 6, 8, 5, 4, 7, 7, 5, 8, 0, 7>>),
     DecStr(<<9, 2, 2, 3, 3, 7, 2, 0, 3, 6, 8, 5, 4, 7, 7, 5, 8, 0, 8>>)}

KeyHeads == {<<116>> \o T : T \in DigitStrs} \cup {<<120, 49>>}

\* Nothing, or "_" with a marker (r, i or x) and an id or none.
TypeParts ==
    {<<>>} \cup {<<95, m>> \o ID : m \in {114, 105, 120}, ID \in DigitStrs \cup {<<>>}}

\* "", "2", "34", "ab", "i2"
SuffixToks == {<<>>, DecStr(<<2>>), DecStr(<<3, 4>>), <<97, 98>>, <<105, 50>>}

KeySuffixes ==
    {Flatten([k \in 1..Len(ts) |-> <<95>> \o ts[k]]) : ts \in SeqsUpTo(SuffixToks, MaxSuffixSegs)}

\* The keys of the readme: t132_r1772018 and t128_i2_594692_3400463811.
ExampleRowKey == <<116>> \o DecStr(<<1, 3, 2>>) \o <<95, 114>> \o DecStr(<<1, 7, 7, 2, 0, 1, 8>>)
ExampleIndexKey ==
    <<116>> \o DecStr(<<1, 2, 8>>) \o <<95, 105>> \o DecStr(<<2>>) \o <<95>>
        \o DecStr(<<5, 9, 4, 6, 9, 2>>) \o <<95>> \o DecStr(<<3, 4, 0, 0, 4, 6, 3, 8, 1, 1>>)

\* The index key of TestParseKey: t1_i1_234_567.
TestIndexKey ==
    <<116, 49, 95, 105, 49, 95>> \o DecStr(<<2, 3, 4>>) \o <<95>> \o DecStr(<<5, 6, 7>>)

KeyInputs ==
    SeqsUpTo(KeyAlphabet, MaxKeyLen) \cup {ExampleRowKey, ExampleIndexKey, TestIndexKey}
        \cup {h \o p \o x : h \in KeyHeads, p \in TypeParts, x \in KeySuffixes}

(***************************************************************************)
(* The key codec's specification: a key string is drawn and one of the     *)
(* codec's entry points is applied to it.                                  *)
(***************************************************************************)
InitKey == op = "init" /\ arg \in KeyInputs /\ res = None

CallParseKey ==
    /\ op = "init"
    /\ op' = "ParseKey"
    /\ res' = ParseKey(arg)
    /\ UNCHANGED arg

CallParsePrefix ==
    /\ op = "init"
    /\ op' = "ParsePrefix"
    /\ res' = ParsePrefix(arg)
    /\ UNCHANGED arg

\* The round trip: the string is parsed and the key that comes back (nil when
\* the parse fails) is decoded again.
CallDecodeKey ==
    /\ op = "init"
    /\ op' = "DecodeKey"
    /\ res' = [parse |-> ParseKey(arg), str |-> DecodeKey(ParseKey(arg).key)]
    /\ UNCHANGED arg

NextKey == CallParseKey \/ CallParsePrefix \/ CallDecodeKey

SpecKey == InitKey /\ [][NextKey]_vars

(***************************************************************************)
(* The integer codec's specification: a destination slice and two int64    *)
(* values are drawn and EncodeInt is applied.                              *)
(***************************************************************************)
\* int64 values around zero and around both ends of the range.
Int64Samples ==
    {[k \in 0..7 |-> IF k = 7 THEN top ELSE IF k = 0 THEN low ELSE mid] :
        top \in {0, 1, 127, 128, 129, 255}, mid \in {0, 255}, low \in {0, 1, 255}}

InitInt ==
    /\ op = "init"
    /\ arg \in [b : SeqsUpTo({116}, MaxBufLen), x : Int64Samples, y : Int64Samples]
    /\ res = None

CallEncodeInt ==
    /\ op = "init"
    /\ op' = "EncodeInt"
    /\ res' = [bx |-> EncodeInt(arg.b, arg.x),
               ex |-> EncodeInt(<<>>, arg.x),
               ey |-> EncodeInt(<<>>, arg.y)]
    /\ UNCHANGED arg

NextInt == CallEncodeInt

SpecInt == InitInt /\ [][NextInt]_vars

(***************************************************************************)
(* Properties of the integer codec (SpecInt).                              *)
(***************************************************************************)
\* The 8 bytes of v XOR 0x8000000000000000, most significant first, written
\* out without the codec: only the top byte differs from v, by its top bit.
SignFlippedBigEndian(v) ==
    [k \in 1..8 |-> IF k = 1 THEN (v[7] + 128) % 256 ELSE v[8 - k]]

\* C4: EncodeInt(b, v) is b followed by exactly 8 bytes, the big-endian bytes
\* of v XOR 0x8000000000000000, and for signed x < y the encoding of x is
\* strictly below the encoding of y in byte-lexicographic order.
C4_EncodeIntOrder ==
    op = "EncodeInt" =>
        /\ Len(res.bx) = Len(arg.b) + 8
        /\ res.bx = arg.b \o SignFlippedBigEndian(arg.x)
        /\ Len(res.ex) = 8 /\ Len(res.ey) = 8
        /\ SignedLess(arg.x, arg.y) => LexLess(res.ex, res.ey)
        /\ SignedLess(arg.y, arg.x) => LexLess(res.ey, res.ex)

\* A negative x and a non-negative y, encoded after a non-empty slice.
C4_Witness ==
    /\ op = "EncodeInt"
    /\ IsNegative(arg.x) /\ ~IsNegative(arg.y)
    /\ arg.b # <<>>
    /\ SignedLess(arg.x, arg.y)
    /\ LexLess(res.ex, res.ey)

(***************************************************************************)
(* Properties of the key codec (SpecKey).                                  *)
(***************************************************************************)
\* A digit string that is a valid id (it fits int64).
ValidIDs(s) == AllDigits(s) /\ ParseInt(s).ok

\* "t{T}"
IsTableSeg(p) == Len(p) >= 2 /\ p[1] = 116 /\ ValidIDs(Tail(p))

\* "r{R}" (m = 114) or "i{I}" (m = 105)
IsIdSeg(p, m) == Len(p) >= 2 /\ p[1] = m /\ ValidIDs(Tail(p))

\* "t{T}_r{R}" or "t{T}_i{I}"
IsRecordKey(s) ==
    LET p == Split(s)
    IN  Len(p) = 2 /\ IsTableSeg(p[1]) /\ (IsIdSeg(p[2], 114) \/ IsIdSeg(p[2], 105))

\* C5: the key ParseKey returns for "t{T}_r{R}" and for "t{T}_i{I}" is the
\* 9-byte table prefix 't' ++ EncodeInt(T), then '_', the marker byte and
\* EncodeInt of the id: 19 bytes of which the table prefix is a byte-prefix.
C5_PrefixInvariant ==
    (op = "ParseKey" /\ IsRecordKey(arg)) =>
        LET p == Split(arg)
            prefix == <<116>> \o SignFlippedBigEndian(ParseInt(Tail(p[1])).val)
            id == SignFlippedBigEndian(ParseInt(Tail(p[2])).val)
        IN  /\ res.err = "nil"
            /\ Len(prefix) = 9
            /\ IsPrefix(prefix, res.key)
            /\ res.key = prefix \o <<95, p[2][1]>> \o id
            /\ Len(res.key) = 19

\* t132_r1772018 parsed: the key starts with 't' and the encoding of 132.
C5_Witness ==
    /\ op = "ParseKey"
    /\ arg = ExampleRowKey
    /\ Len(res.key) = 19
    /\ Take(res.key, 9) = <<116, 128, 0, 0, 0, 0, 0, 0, 132>>

\* "t", "t{T}", "t{T}_", "t{T}_r", "t{T}_i", or anything ending in "_".
IsIncompleteKey(s) ==
    \/ s = <<116>>
    \/ LET p == Split(s)
       IN  \/ Len(p) = 1 /\ IsTableSeg(p[1])
           \/ Len(p) = 2 /\ IsTableSeg(p[1]) /\ p[2] \in {<<>>, <<114>>, <<105>>}
    \/ s # <<>> /\ s[Len(s)] = 95

\* C6: ParseKey returns an error for every input that does not denote one
\* concrete row or index entry: "t", "t{T}", "t{T}_", "t{T}_r", "t{T}_i" and
\* every input ending in a separator.
C6_StrictRejectsPrefixes ==
    (op = "ParseKey" /\ IsIncompleteKey(arg)) => res.err # "nil"

\* A datum segment: a decimal integer or a non-empty string token.
IsDatumSeg(p) == p # <<>> /\ (AllDigits(p) => ParseInt(p).ok)

\* "t{T}_i{I}_{v1}_..._{vn}", n >= 1
IsIndexKeyWithDatums(s) ==
    LET p == Split(s)
    IN  /\ Len(p) >= 3
        /\ IsTableSeg(p[1])
        /\ IsIdSeg(p[2], 105)
        /\ \A k \in 3..Len(p) : IsDatumSeg(p[k])

\* C7: ParseKey succeeds on every index key with datum segments and returns
\* the key of "t{T}_i{I}" followed by the order-preserving encoding of the
\* datums, in order.
C7_IndexKeyWithDatums ==
    (op = "ParseKey" /\ IsIndexKeyWithDatums(arg)) =>
        LET p == Split(arg)
            head == <<116>> \o SignFlippedBigEndian(ParseInt(Tail(p[1])).val)
                        \o <<95, 105>> \o SignFlippedBigEndian(ParseInt(Tail(p[2])).val)
            ds == DatumLiterals(Drop(p, 2), <<>>)
        IN  /\ res.err = "nil"
            /\ res.key # <<>>
            /\ res.key = EncodeKey(head, ds.datums)

\* "t{T}_r{R}" with at least a separator after it.
IsRowKeyWithSuffix(s) ==
    LET p == Split(s)
    IN  Len(p) >= 3 /\ IsTableSeg(p[1]) /\ IsIdSeg(p[2], 114)

\* The first segment is not 't' followed by digits.  The lone "t" is the bare
\* prefix of C6 and is not counted here.
HasBadFirstSegment(s) ==
    /\ s # <<116>>
    /\ LET f == Split(s)[1]
       IN  ~(Len(f) >= 2 /\ f[1] = 116 /\ AllDigits(Tail(f)))

\* A type marker that is neither r nor i.
HasBadMarker(s) ==
    LET p == Split(s)
    IN  Len(p) >= 2 /\ IsTableSeg(p[1]) /\ p[2] # <<>> /\ p[2][1] \notin {114, 105}

IsCanonical(d) == ValidIDs(d) /\ (Len(d) = 1 \/ d[1] # 48)

\* "t{T}_r{R}" or "t{T}_i{I}_{v1}_..._{vn}" with integer datums.
IsWellFormedKey(s) ==
    LET p == Split(s)
    IN  /\ Len(p) >= 2
        /\ IsTableSeg(p[1]) /\ IsCanonical(Tail(p[1]))
        /\ \/ Len(p) = 2 /\ IsIdSeg(p[2], 114) /\ IsCanonical(Tail(p[2]))
           \/ /\ IsIdSeg(p[2], 105) /\ IsCanonical(Tail(p[2]))
              /\ \A k \in 3..Len(p) : IsCanonical(p[k])

\* C10: DecodeKey(ParseKey(s)) = s for every well-formed row key and index key
\* with integer datums, and DecodeKey of 't' ++ EncodeInt(T) is "t{T}".
C10_RoundTrip ==
    op = "DecodeKey" =>
        /\ IsWellFormedKey(arg) => (res.parse.err = "nil" /\ res.str = arg)
        /\ (IsTableSeg(arg) /\ IsCanonical(Tail(arg))) =>
                DecodeKey(<<116>> \o SignFlippedBigEndian(ParseInt(Tail(arg)).val)) = arg

(***************************************************************************)
(* The store client (client.go): TiKVClient.Get, Scan and Close.           *)
(*                                                                         *)
(* While a call runs, op names it, arg holds what it was called with and   *)
(* how the store behind it answers, and res holds the call's position and  *)
(* locals: pc, whether a transaction and an iterator exist (their deferred *)
(* release is registered with them), the loop's i and err, the iterator's  *)
(* position and validity, keys and values, the store calls made so far     *)
(* (log), whether one of them returned an error (failed), and the values   *)
(* returned (ret) once pc is "return".                                     *)
(***************************************************************************)
NoReturn == [keys |-> <<>>, values |-> <<>>, val |-> <<>>, err |-> "nil"]

ClientStart ==
    [pc |-> "entry", tx |-> FALSE, iter |-> FALSE, i |-> 0, err |-> "nil",
     pos |-> 1, valid |-> FALSE, keys |-> <<>>, values |-> <<>>,
     log |-> <<>>, failed |-> FALSE, ret |-> NoReturn]

\* A store call made (logged); failed says it returned an error.
StoreCall(st, name, failed) ==
    [st EXCEPT !.log = Append(@, name), !.failed = @ \/ failed]

\* return keys, values / val, err: the deferred calls are still to run.
Return(st, keys, values, val, err) ==
    [st EXCEPT !.pc = "return",
               !.ret = [keys |-> keys, values |-> values, val |-> val, err |-> err]]

\* hasPrefix(s, prefix)
hasPrefix(s, prefix) ==
    IF Len(s) < Len(prefix) THEN FALSE
    ELSE \A i \in 1..Len(prefix) : s[i] = prefix[i]

\* Scan, lines 51-59: the nil check, Begin and defer tx.Rollback().
ScanBegin(a, st) ==
    IF ~a.initialized
    THEN Return(st, <<>>, <<>>, <<>>, "TiKV client is not initialized")
    ELSE IF a.fault = "Begin"
    THEN Return(StoreCall(st, "Begin", TRUE), <<>>, <<>>, <<>>,
                "failed to begin the transaction")
    ELSE [StoreCall(st, "Begin", FALSE) EXCEPT !.tx = TRUE, !.pc = "iter"]

\* Scan, lines 61-68: tx.Iter(prefix, nil) and defer iter.Close().  The new
\* iterator stands on the first entry, if there is one.
ScanIter(a, st) ==
    IF a.fault = "Iter"
    THEN Return(StoreCall(st, "Iter", TRUE), <<>>, <<>>, <<>>,
                "failed to create iterator")
    ELSE [StoreCall(st, "Iter", FALSE) EXCEPT
            !.iter = TRUE, !.pos = 1, !.valid = a.content # <<>>, !.pc = "cond"]

\* Scan, line 69, the loop condition; line 89 when it is false.
ScanCond(a, st) ==
    IF st.i < a.limit /\ st.valid THEN [st EXCEPT !.pc = "body"]
    ELSE Return(st, st.keys, st.values, <<>>, "nil")

\* The loop body with continue in place of break.
ScanBody_SkipMismatch(a, st) ==
    IF st.err # "nil" THEN Return(st, <<>>, <<>>, <<>>, "iterator error")
    ELSE IF ~hasPrefix(a.content[st.pos].key, a.prefix) THEN [st EXCEPT !.pc = "post"]
    ELSE [st EXCEPT !.keys = Append(@, a.content[st.pos].key),
                    !.values = Append(@, a.content[st.pos].val),
                    !.pc = "post"]

\* Scan, lines 70-86, the loop body; break leads to line 89.
ScanBody(a, st) ==
    IF st.err # "nil" THEN Return(st, <<>>, <<>>, <<>>, "iterator error")
    ELSE IF ~hasPrefix(a.content[st.pos].key, a.prefix)
    THEN Return(st, st.keys, st.values, <<>>, "nil")
    ELSE [st EXCEPT !.keys = Append(@, a.content[st.pos].key),
                    !.values = Append(@, a.content[st.pos].val),
                    !.pc = "post"]

\* Scan, line 69, the post statement i, err = i+1, iter.Next().  The Next()
\* call numbered a.failAt returns an error when a.fault is "Next", and the
\* store decides (a.validAfter) whether the iterator is still valid then.
ScanPost(a, st) ==
    LET fails == a.fault = "Next" /\ a.failAt = st.i + 1
    IN  [StoreCall(st, "Next", fails) EXCEPT
            !.i = @ + 1,
            !.err = IF fails THEN "Next" ELSE "nil",
            !.pos = IF fails THEN @ ELSE @ + 1,
            !.valid = IF fails THEN a.validAfter ELSE st.pos + 1 <= Len(a.content),
            !.pc = "cond"]

\* Get, lines 32-40: the nil check, Begin and defer tx.Rollback().
GetBegin(a, st) ==
    IF ~a.initialized
    THEN Return(st, <<>>, <<>>, <<>>, "TiKV client is not initialized")
    ELSE IF a.fault = "Begin"
    THEN Return(StoreCall(st, "Begin", TRUE), <<>>, <<>>, <<>>,
                "failed to begin the transaction")
    ELSE [StoreCall(st, "Begin", FALSE) EXCEPT !.tx = TRUE, !.pc = "get"]

\* Get, lines 42-47: tx.Get(ctx, key).
GetGet(a, st) ==
    IF a.fault = "Get"
    THEN Return(StoreCall(st, "Get", TRUE), <<>>, <<>>, <<>>, "failed to get key")
    ELSE Return(StoreCall(st, "Get", FALSE), <<>>, <<>>, a.value, "nil")

\* Close, lines 23-29: nil for a client that was never set up, else what
\* c.client.Close() returns.
Close(a, st) ==
    IF ~a.initialized THEN Return(st, <<>>, <<>>, <<>>, "nil")
    ELSE Return(StoreCall(st, "client.Close", a.fault = "Close"), <<>>, <<>>, <<>>,
                IF a.fault = "Close" THEN "Close" ELSE "nil")

\* The deferred calls run in the order they were registered.
Deferred_RollbackFirst(st) ==
    [st EXCEPT !.log = @ \o (IF st.tx THEN <<"tx.Rollback">> ELSE <<>>)
                         \o (IF st.iter THEN <<"iter.Close">> ELSE <<>>),
               !.pc = "done"]

\* The deferred calls, last registered first: iter.Close(), tx.Rollback().
Deferred(st) ==
    [st EXCEPT !.log = @ \o (IF st.iter THEN <<"iter.Close">> ELSE <<>>)
                         \o (IF st.tx THEN <<"tx.Rollback">> ELSE <<>>),
               !.pc = "done"]

(***************************************************************************)
(* Inputs of the store client.                                             *)
(***************************************************************************)
StoreKeys == {<<116, 1>>, <<116, 2>>, <<117>>}

\* Every entry's value tells which key it belongs to.
StoreEntries == {[key |-> k, val |-> <<100 + k[Len(k)]>>] : k \in StoreKeys}

\* The third prefix is longer than every key.
Prefixes == {<<116>>, <<116, 1>>, <<116, 1, 0>>}

\* What the store does: nothing wrong, or one call that returns an error.
Faults ==
    {[fault |-> f, failAt |-> 0, validAfter |-> FALSE] : f \in {"none", "Begin", "Iter"}}
    \cup {[fault |-> "Next", failAt |-> n, validAfter |-> v] :
            n \in 1..MaxLimit, v \in BOOLEAN}

\* Any entries in any order: Scan takes what the iterator yields.  runScan
\* passes a limit of at least 1.
ScanInputs ==
    {[call |-> "Scan", initialized |-> ini, fault |-> f.fault, failAt |-> f.failAt,
      validAfter |-> f.validAfter, content |-> c, prefix |-> p, limit |-> l,
      key |-> <<>>, value |-> <<>>] :
        ini \in BOOLEAN, f \in Faults, c \in SeqsUpTo(StoreEntries, MaxEntries),
        p \in Prefixes, l \in 1..MaxLimit}

GetInputs ==
    {[call |-> "Get", initialized |-> ini, fault |-> f, failAt |-> 0,
      validAfter |-> FALSE, content |-> <<>>, prefix |-> <<>>, limit |-> 0,
      key |-> k, value |-> v] :
        ini \in BOOLEAN, f \in {"none", "Begin", "Get"}, k \in StoreKeys,
        v \in {<<>>, <<7>>}}

CloseInputs ==
    {[call |-> "Close", initialized |-> ini, fault |-> f, failAt |-> 0,
      validAfter |-> FALSE, content |-> <<>>, prefix |-> <<>>, limit |-> 0,
      key |-> <<>>, value |-> <<>>] :
        ini \in BOOLEAN, f \in {"none", "Close"}}

ClientInputs == ScanInputs \cup GetInputs \cup CloseInputs

(***************************************************************************)
(* The store client's specification: a call is drawn with the store's      *)
(* behaviour and runs statement by statement to its return.                *)
(***************************************************************************)
InitClient == op = "init" /\ arg \in ClientInputs /\ res = None

CallScan ==
    /\ op = "init" /\ arg.call = "Scan"
    /\ op' = "Scan"
    /\ res' = ScanBegin(arg, ClientStart)
    /\ UNCHANGED arg

StepScanIter ==
    /\ op = "Scan" /\ res.pc = "iter"
    /\ res' = ScanIter(arg, res)
    /\ UNCHANGED <<op, arg>>

StepScanCond ==
    /\ op = "Scan" /\ res.pc = "cond"
    /\ res' = ScanCond(arg, res)
    /\ UNCHANGED <<op, arg>>

StepScanBody ==
    /\ op = "Scan" /\ res.pc = "body"
    /\ res' = ScanBody(arg, res)
    /\ UNCHANGED <<op, arg>>

StepScanPost ==
    /\ op = "Scan" /\ res.pc = "post"
    /\ res' = ScanPost(arg, res)
    /\ UNCHANGED <<op, arg>>

CallGet ==
    /\ op = "init" /\ arg.call = "Get"
    /\ op' = "Get"
    /\ res' = GetBegin(arg, ClientStart)
    /\ UNCHANGED arg

StepGetGet ==
    /\ op = "Get" /\ res.pc = "get"
    /\ res' = GetGet(arg, res)
    /\ UNCHANGED <<op, arg>>

CallClose ==
    /\ op = "init" /\ arg.call = "Close"
    /\ op' = "Close"
    /\ res' = Close(arg, ClientStart)
    /\ UNCHANGED arg

StepReturn ==
    /\ op \in {"Scan", "Get", "Close"} /\ res.pc = "return"
    /\ res' = Deferred(res)
    /\ UNCHANGED <<op, arg>>

NextClient ==
    \/ CallScan \/ StepScanIter \/ StepScanCond \/ StepScanBody \/ StepScanPost
    \/ CallGet \/ StepGetGet \/ CallClose
    \/ StepReturn

SpecClient == InitClient /\ [][NextClient]_vars

C12_StoreErrorsSurfaced ==
    (op \in {"Get", "Scan"} /\ res.pc = "done" /\ res.failed) =>
        /\ res.ret.err # "nil"
        /\ res.ret.keys = <<>> /\ res.ret.values = <<>> /\ res.ret.val = <<>>

(***************************************************************************)
(* The datum scanner run iteration by iteration: res holds the loop's      *)
(* state st = [i, foundValues, found], the cursor positions at which       *)
(* Decode was called (visited), and the values returned once pc is "done". *)
(***************************************************************************)
ScrapeInputs == SeqsUpTo(ValueAlphabet, MaxValueLen) \cup DatumInputs

InitScrape == op = "init" /\ arg \in ScrapeInputs /\ res = None

\* The loop body's effect at every cursor position of every input, from a
\* state with nothing found yet: ScrapeStepAt[data][p] holds the next cursor,
\* the value appended (if any) and whether one was.  It is a constant, so it
\* is evaluated once for all steps.
ScrapeStepAt ==
    [d \in ScrapeInputs |->
        [p \in 0..(Len(d) - 1) |->
            ScrapeStep(d, [i |-> p, foundValues |-> <<>>, found |-> FALSE])] @@ <<>>] @@ <<>>

\* Lines 78-83: the empty input returns at once.
CallScrapeMemComparable ==
    /\ op = "init"
    /\ op' = "scrapeMemComparable"
    /\ res' = IF Len(arg) = 0
              THEN [pc |-> "done",
                    st |-> [i |-> 0, foundValues |-> <<>>, found |-> FALSE],
                    visited |-> <<>>,
                    ret |-> [vals |-> <<>>, found |-> FALSE]]
              ELSE [pc |-> "loop",
                    st |-> [i |-> 0, foundValues |-> <<>>, found |-> FALSE],
                    visited |-> <<>>,
                    ret |-> [vals |-> <<>>, found |-> FALSE]]
    /\ UNCHANGED arg

\* Lines 85-106: one iteration of the loop.
StepScrapeIteration ==
    /\ op = "scrapeMemComparable" /\ res.pc = "loop"
    /\ res.st.i < Len(arg)
    /\ LET body == ScrapeStepAt[arg][res.st.i]
       IN  res' = [res EXCEPT !.st = [i |-> body.i,
                                      foundValues |-> @.foundValues \o body.foundValues,
                                      found |-> @.found \/ body.found],
                              !.visited = Append(@, res.st.i)]
    /\ UNCHANGED <<op, arg>>

\* Lines 108-112: the loop is over.
StepScrapeReturn ==
    /\ op = "scrapeMemComparable" /\ res.pc = "loop"
    /\ ~(res.st.i < Len(arg))
    /\ res' = [res EXCEPT
                !.pc = "done",
                !.ret = IF res.st.found
                        THEN [vals |-> res.st.foundValues, found |-> TRUE]
                        ELSE [vals |-> <<>>, found |-> FALSE]]
    /\ UNCHANGED <<op, arg>>

NextScrape == CallScrapeMemComparable \/ StepScrapeIteration \/ StepScrapeReturn

SpecScrape == InitScrape /\ [][NextScrape]_vars

\* A datum decodes at the 0-based position p of data.
DecodesAt(data, p) ==
    LET r == Decode(Drop(data, p)) IN r.ok /\ Len(r.datums) > 0

\* The positions of ps at which a datum decodes, in order.
RECURSIVE Hits(_, _)
Hits(data, ps) ==
    IF ps = <<>> THEN <<>>
    ELSE IF DecodesAt(data, Head(ps)) THEN <<Head(ps)>> \o Hits(data, Tail(ps))
    ELSE Hits(data, Tail(ps))

IntSampleDatums == {d \in SampleDatums : d.kind = "int"}

Byte0(data, p) == data[p + 1]

HdrNumSmall(data) == Byte0(data, 2) + 256 * Byte0(data, 3)
HdrNumLarge(data) == Byte0(data, 4) + 256 * Byte0(data, 5)
HdrNumCols(data) == HdrNumSmall(data) + HdrNumLarge(data)

\* The first byte after the offset table.
HdrBase(data) ==
    6 + HdrNumSmall(data) + 4 * HdrNumLarge(data) + 2 * HdrNumCols(data)

\* The i-th end offset (i from 1), and 0 for i = 0.
HdrOffset(data, i) ==
    IF i = 0 THEN 0
    ELSE LET p == HdrBase(data) - 2 * HdrNumCols(data) + 2 * (i - 1)
         IN  Byte0(data, p) + 256 * Byte0(data, p + 1)

\* The i-th id (i from 1): the one-byte ids, then the 4-byte ids.
HdrID(data, i) ==
    IF i <= HdrNumSmall(data) THEN Byte0(data, 6 + (i - 1))
    ELSE LET p == 6 + HdrNumSmall(data) + 4 * (i - HdrNumSmall(data) - 1)
         IN  Byte0(data, p) + 256 * Byte0(data, p + 1) + 65536 * Byte0(data, p + 2)
                + 16777216 * Byte0(data, p + 3)

\* One of the four conditions under which a row is malformed.
IsMalformedRow(data) ==
    \/ Len(data) < 6
    \/ HdrBase(data) > Len(data)
    \/ \E i \in 1..HdrNumCols(data) : HdrOffset(data, i) < HdrOffset(data, i - 1)
    \/ \E i \in 1..HdrNumCols(data) : HdrBase(data) + HdrOffset(data, i) > Len(data)

\* C14: parseRowV2Structure returns an error exactly when len(data) < 6, or
\* base > len(data), or some offset is smaller than the previous one, or
\* base + some offset > len(data), and succeeds otherwise; a row whose tables
\* end exactly at the end of the buffer with all offsets 0 is accepted.
C14_MalformedRowIff ==
    op = "decodeRowV2" =>
        /\ ~res.parse.ok <=> IsMalformedRow(arg)
        /\ (/\ Len(arg) >= 6
            /\ HdrBase(arg) = Len(arg)
            /\ \A i \in 1..HdrNumCols(arg) : HdrOffset(arg, i) = 0) => res.parse.ok

\* Two columns with end offsets 2 and 1 over a 2-byte blob: refused, and only
\* because the second offset is smaller than the first.
C14_Witness ==
    /\ op = "decodeRowV2"
    /\ arg = RowBytes(<<2, 3>>, <<>>, <<2, 1>>, <<65, 65>>)
    /\ HdrBase(arg) + 2 = Len(arg)
    /\ HdrOffset(arg, 2) < HdrOffset(arg, 1)
    /\ ~res.parse.ok

\* C15: on a successful parse the ids are the numSmall one-byte ids followed
\* by the numLarge little-endian 4-byte ids, and the bytes returned for the
\* i-th id are data[base+offsets[i-1] : base+offsets[i]] with offsets[-1] = 0
\* and base the first byte after the offset table (for an id listed more than
\* once, the range of its last occurrence); bytes after the last end offset
\* are ignored.  The example row gives column 2 the 15 name bytes and column 3
\* the single byte 01.
C15_ColumnRanges ==
    (op = "decodeRowV2" /\ res.parse.ok) =>
        LET n == HdrNumCols(arg)
            base == HdrBase(arg)
        IN  /\ DOMAIN res.parse.cols = {HdrID(arg, i) : i \in 1..n}
            /\ \A i \in 1..n :
                    (\A m \in (i + 1)..n : HdrID(arg, m) # HdrID(arg, i)) =>
                        res.parse.cols[HdrID(arg, i)] =
                            SubSeq(arg, base + HdrOffset(arg, i - 1) + 1,
                                   base + HdrOffset(arg, i))
            /\ arg = ExampleRow =>
                    /\ DOMAIN res.parse.cols = {2, 3}
                    /\ res.parse.cols[2] = SubSeq(arg, 13, 27)
                    /\ Len(res.parse.cols[2]) = 15
                    /\ res.parse.cols[3] = <<1>>

\* The example row parsed.
C15_Witness ==
    /\ op = "decodeRowV2"
    /\ arg = ExampleRow
    /\ res.parse.ok
    /\ res.parse.cols[2] = Str(<<"A", "a", "l", "i", "y", "a", "h", " ",
                                 "M", "u", "e", "l", "l", "e", "r">>)
    /\ res.parse.cols[3] = <<1>>

(***************************************************************************)
(* trySmartDecode run rule by rule: res holds the position (pc), whether   *)
(* the guarded document decode panicked and was recovered, and the string  *)
(* returned (out) once pc is "done".                                       *)
(***************************************************************************)
Rep(c, n) == [k \in 1..n |-> c]

FieldAlphabet == {0, 1, 3, 65, 255}

\* Fields of the widths 8 and above, with and without control bytes.
LongFields ==
    {Rep(65, 8), Rep(255, 8), <<0>> \o Rep(65, 7), <<1>> \o Rep(0, 7),
     <<3>> \o Rep(0, 7), <<1>> \o Rep(65, 7), Rep(65, 9), Rep(255, 9),
     <<1>> \o Rep(65, 8), <<0>> \o Rep(65, 9), <<0>> \o Rep(65, 10),
     <<0, 0>> \o Rep(65, 19), <<65, 255>> \o Rep(65, 9)}

\* A field that starts a document has a Value of at most 8 bytes or no elements.
FieldInputs == SeqsUpTo(FieldAlphabet, MaxFieldLen) \cup LongFields

InitField == op = "init" /\ arg \in FieldInputs /\ res = None

FieldStart == [pc |-> "entry", panicked |-> FALSE, recovered |-> FALSE, out |-> <<>>]

\* Lines 202-210: the empty field, and the test of the leading byte.
CallTrySmartDecode ==
    /\ op = "init"
    /\ op' = "trySmartDecode"
    /\ res' = IF Len(arg) = 0 THEN [FieldStart EXCEPT !.pc = "done", !.out = StrNullEmpty]
              ELSE IF arg[1] \in {1, 3} THEN [FieldStart EXCEPT !.pc = "json"]
              ELSE [FieldStart EXCEPT !.pc = "rules"]
    /\ UNCHANGED arg

\* Lines 207-210 and 253-263: the guarded decode; a panic is recovered by the
\* deferred function and reported as ok = false.
StepSafeDecodeJson ==
    /\ op = "trySmartDecode" /\ res.pc = "json"
    /\ LET r == safeDecodeJson(arg)
       IN  res' = IF r.ok THEN [res EXCEPT !.pc = "done", !.out = r.str]
                  ELSE [res EXCEPT !.pc = "rules", !.panicked = TRUE, !.recovered = TRUE]
    /\ UNCHANGED <<op, arg>>

\* Lines 213-250: the integer, string and hex rules.
StepRules ==
    /\ op = "trySmartDecode" /\ res.pc = "rules"
    /\ res' = [res EXCEPT !.pc = "done", !.out = SmartDecodeTail(arg)]
    /\ UNCHANGED <<op, arg>>

NextField == CallTrySmartDecode \/ StepSafeDecodeJson \/ StepRules

SpecField == InitField /\ [][NextField]_vars

\* The document rule gives a result: an object or array with no elements.
IsEmptyDocument(b) ==
    /\ Len(b) >= 5
    /\ b[1] \in {1, 3}
    /\ SubSeq(b, 2, 5) = <<0, 0, 0, 0>>

IsIntCandidate(b) == Len(b) \in {1, 2, 4, 8}

IsStrCandidate(b) ==
    /\ Utf8ValidFrom(b, 1)
    /\ 10 * Cardinality({k \in 1..Len(b) : b[k] < 32 /\ b[k] \notin {9, 10, 13}}) < Len(b)

\* "Int: x"
IntText(b) == Str(<<"I", "n", "t", ":", " ">>) \o FormatInt(SignedLittleEndian(b))

C17_GuardedDocumentDecode ==
    (op = "trySmartDecode" /\ Len(arg) > 0 /\ arg[1] \in {1, 3}) =>
        /\ res.panicked => res.recovered
        /\ res.pc = "done" =>
            /\ Len(arg) < 5 => (res.panicked /\ res.out = SmartDecodeTail(arg))
            /\ res.panicked => res.out = SmartDecodeTail(arg)
            /\ IsEmptyDocument(arg) =>
                    /\ ~res.panicked
                    /\ res.out = (IF arg[1] = 1 THEN <<123, 125>> ELSE <<91, 93>>)
            /\ ~res.panicked => res.out = safeDecodeJson(arg).str
            /\ arg = <<1>> =>
                    res.out = Str(<<"I", "n", "t", ":", " ", "1", " ">>) \o <<40>>
                                \o Str(<<"H", "e", "x", ":", " ", "0", "x", "0", "1">>) \o <<41>>

\* The single byte 01: the decode panics, and the integer rule answers.
C17_Witness ==
    /\ op = "trySmartDecode" /\ res.pc = "done"
    /\ arg = <<1>>
    /\ res.panicked /\ res.recovered
    /\ res.out = Str(<<"I", "n", "t", ":", " ", "1", " ">>) \o <<40>>
                    \o Str(<<"H", "e", "x", ":", " ", "0", "x", "0", "1">>) \o <<41>>

\* The scanner under weak fairness of its steps: a call that can take a step
\* eventually takes one.
FairScrape == SpecScrape /\ WF_vars(NextScrape)

\* What one iteration at position p adds to the cursor: 1 when nothing decodes
\* there or the datum re-encodes to nothing, else the datum's re-encoded length.
CursorAdvance(data, p) ==
    IF ~DecodesAt(data, p) THEN 1
    ELSE LET n == Len(EncodeKey(<<>>, <<Decode(Drop(data, p)).datums[1]>>))
         IN  IF n = 0 THEN 1 ELSE n

\* The cursor only moves forward, by CursorAdvance; every position handed to
\* Decode is inside the buffer; iterations and values are at most len(data).
ScrapeBounded ==
    op = "scrapeMemComparable" =>
        LET visited == res.visited
            n == Len(visited)
        IN  /\ \A k \in 1..n :
                    /\ visited[k] >= 0 /\ visited[k] < Len(arg)
                    /\ LET next == IF k < n THEN visited[k + 1] ELSE res.st.i
                       IN  /\ next > visited[k]
                           /\ next = visited[k] + CursorAdvance(arg, visited[k])
            /\ n = 0 => res.st.i = 0
            /\ n <= Len(arg)
            /\ Len(res.st.foundValues) <= n
            /\ Len(res.ret.vals) <= Len(arg)

ScrapeDone == op = "scrapeMemComparable" /\ res.pc = "done"

\* C18: scrapeMemComparable terminates on every input without backtracking:
\* the cursor strictly increases on every iteration (by 1 on a failed decode or
\* an empty re-encoding, else by the re-encoded length of the datum), no slice
\* data[i:] is taken with i >= len(data), the loop runs at most len(data)
\* iterations and returns at most len(data) values, and the call returns.
C18_ScrapeTerminates == []ScrapeBounded /\ <>ScrapeDone

\* ff ff and two encoded integers scanned to the end: four iterations over 20
\* bytes, the cursor going 0, 1, 2, 11, 20.
C18_Witness ==
    /\ ScrapeDone
    /\ arg = <<255, 255>> \o EncodeKey(<<>>, <<IntDatum(WordOfNat(100)), IntDatum(WordOfNat(200))>>)
    /\ res.visited = <<0, 1, 2, 11>>
    /\ res.st.i = 20 /\ Len(arg) = 20
    /\ Len(res.ret.vals) = 2

(***************************************************************************)
(* The get and scan commands (main.go), statement by statement.  arg is    *)
(* the command line and the behaviour of the store; res holds the position *)
(* (pc), the parsed key, the events so far in order (log: the parse, the   *)
(* client's creation, the request, the printing, the client's Close) and   *)
(* the error returned (ret, with the error it wraps in cause).             *)
(***************************************************************************)
CommandStart ==
    [pc |-> "entry", rawkey |-> <<>>, log |-> <<>>, ret |-> "nil", cause |-> "nil"]

\* A return before the client exists: no deferred call runs.
CommandFail(st, ret, cause) == [st EXCEPT !.pc = "done", !.ret = ret, !.cause = cause]

\* runGet up to its call of getKey.
runGet(a, st) ==
    IF ~a.pd THEN CommandFail(st, "PD endpoints are required", "nil")
    ELSE IF a.key = <<>> THEN CommandFail(st, "key is required", "nil")
    ELSE IF ~hasPrefix(a.key, <<116>>)
         THEN CommandFail(st, "currently only table keys (starting with 't') are supported", "nil")
    ELSE [st EXCEPT !.pc = "parse"]

\* runScan up to its call of scanKeys.
runScan(a, st) ==
    IF ~a.pd THEN CommandFail(st, "PD endpoints are required", "nil")
    ELSE IF a.key = <<>> THEN CommandFail(st, "prefix is required", "nil")
    ELSE IF ~hasPrefix(a.key, <<116>>)
         THEN CommandFail(st, "currently only table key prefixes (starting with 't') are supported", "nil")
    ELSE IF a.limit <= 0 THEN CommandFail(st, "limit must be greater than 0", "nil")
    ELSE IF a.limit > 1000 THEN CommandFail(st, "limit exceeds maximum of 1000", "nil")
    ELSE [st EXCEPT !.pc = "parse"]

\* The parse of getKey going on to the client whatever ParseKey returns.
getKeyParse_IgnoreError(a, st) ==
    LET r == ParseKey(a.key)
    IN  [st EXCEPT !.pc = "connect", !.rawkey = r.key, !.log = Append(@, "ParseKey")]

\* getKey, lines 212-215.
getKeyParse(a, st) ==
    LET r == ParseKey(a.key)
        st1 == [st EXCEPT !.rawkey = r.key, !.log = Append(@, "ParseKey")]
    IN  IF r.err # "nil" THEN CommandFail(st1, "failed to parse key", r.err)
        ELSE [st1 EXCEPT !.pc = "connect"]

\* scanKeys, lines 242-245.
scanKeysParse(a, st) ==
    LET r == ParsePrefix(a.key)
        st1 == [st EXCEPT !.rawkey = r.key, !.log = Append(@, "ParsePrefix")]
    IN  IF r.err # "nil" THEN CommandFail(st1, "failed to parse prefix", r.err)
        ELSE [st1 EXCEPT !.pc = "connect"]

\* client.NewTiKVClient and the deferred Close it is followed by.
CommandConnect(a, st) ==
    LET st1 == [st EXCEPT !.log = Append(@, "NewTiKVClient")]
    IN  IF a.fault = "connect"
        THEN CommandFail(st1, "failed to connect to PD server", "connect")
        ELSE [st1 EXCEPT !.pc = "request"]

\* cli.Get or cli.Scan.
CommandRequest(a, st, call, msg) ==
    LET st1 == [st EXCEPT !.log = Append(@, call)]
    IN  IF a.fault = "request"
        THEN [st1 EXCEPT !.pc = "return", !.ret = msg, !.cause = "request"]
        ELSE [st1 EXCEPT !.pc = "print"]

\* The result written to standard output.
CommandPrint(st) == [st EXCEPT !.pc = "return", !.log = Append(@, "print")]

\* The deferred cli.Close.
CommandClose(st) == [st EXCEPT !.pc = "done", !.log = Append(@, "Close")]

CommandKeys ==
    SeqsUpTo(KeyAlphabet, MaxCommandKeyLen) \cup {ExampleRowKey, ExampleIndexKey, TestIndexKey}

CommandInputs ==
    [cmd : {"get"}, pd : BOOLEAN, key : CommandKeys, limit : {0},
     fault : {"none", "connect", "request"}]
    \cup
    [cmd : {"scan"}, pd : BOOLEAN, key : CommandKeys, limit : {0, 1, MaxLimit, 1001},
     fault : {"none", "connect", "request"}]

InitCommand == op = "init" /\ arg \in CommandInputs /\ res = None

CallRunGet ==
    /\ op = "init" /\ arg.cmd = "get"
    /\ op' = "getKey"
    /\ res' = runGet(arg, CommandStart)
    /\ UNCHANGED arg

CallRunScan ==
    /\ op = "init" /\ arg.cmd = "scan"
    /\ op' = "scanKeys"
    /\ res' = runScan(arg, CommandStart)
    /\ UNCHANGED arg

StepGetKeyParse ==
    /\ op = "getKey" /\ res.pc = "parse"
    /\ res' = getKeyParse(arg, res)
    /\ UNCHANGED <<op, arg>>

StepScanKeysParse ==
    /\ op = "scanKeys" /\ res.pc = "parse"
    /\ res' = scanKeysParse(arg, res)
    /\ UNCHANGED <<op, arg>>

StepCommandConnect ==
    /\ op \in {"getKey", "scanKeys"} /\ res.pc = "connect"
    /\ res' = CommandConnect(arg, res)
    /\ UNCHANGED <<op, arg>>

StepGetKeyRequest ==
    /\ op = "getKey" /\ res.pc = "request"
    /\ res' = CommandRequest(arg, res, "Get", "failed to get key")
    /\ UNCHANGED <<op, arg>>

StepScanKeysRequest ==
    /\ op = "scanKeys" /\ res.pc = "request"
    /\ res' = CommandRequest(arg, res, "Scan", "failed to scan keys")
    /\ UNCHANGED <<op, arg>>

StepCommandPrint ==
    /\ op \in {"getKey", "scanKeys"} /\ res.pc = "print"
    /\ res' = CommandPrint(res)
    /\ UNCHANGED <<op, arg>>

StepCommandClose ==
    /\ op \in {"getKey", "scanKeys"} /\ res.pc = "return"
    /\ res' = CommandClose(res)
    /\ UNCHANGED <<op, arg>>

NextCommand ==
    \/ CallRunGet \/ CallRunScan
    \/ StepGetKeyParse \/ StepScanKeysParse
    \/ StepCommandConnect
    \/ StepGetKeyRequest \/ StepScanKeysRequest
    \/ StepCommandPrint \/ StepCommandClose

SpecCommand == InitCommand /\ [][NextCommand]_vars

\* The command is past its parse and the parse returned an error.
ParseHasFailed ==
    /\ op \in {"getKey", "scanKeys"}
    /\ res.pc \notin {"entry", "parse"}
    /\ res.log # <<>>
    /\ IF op = "getKey" THEN ParseKey(arg.key).err # "nil"
       ELSE ParsePrefix(arg.key).err # "nil"

\* The number of entries of log that are in the set es.
CountEvents(log, es) == Cardinality({k \in 1..Len(log) : log[k] \in es})

\* C19: when ParseKey (in getKey) or ParsePrefix (in scanKeys) returns an
\* error the key is nil and the command returns that error before a store
\* client is created, before a Get or Scan is issued and before anything is
\* printed; and the parse is attempted at most once in every run.
C19_ParseFailFast ==
    /\ op \in {"getKey", "scanKeys"} =>
            /\ CountEvents(res.log, {"ParseKey", "ParsePrefix"}) <= 1
            /\ res.log # <<>> => res.log[1] = (IF op = "getKey" THEN "ParseKey" ELSE "ParsePrefix")
    /\ ParseHasFailed =>
            /\ res.rawkey = <<>>
            /\ res.pc = "done"
            /\ res.log \in {<<"ParseKey">>, <<"ParsePrefix">>}
            /\ res.ret \in {"failed to parse key", "failed to parse prefix"}
            /\ res.cause = (IF op = "getKey" THEN ParseKey(arg.key).err
                            ELSE ParsePrefix(arg.key).err)

\* get of the key "tx": the parse fails and nothing else happens.
C19_Witness ==
    /\ op = "getKey"
    /\ arg.key = <<116, 120>> /\ arg.fault = "none"
    /\ ParseHasFailed
    /\ res.pc = "done"
    /\ res.log = <<"ParseKey">>
    /\ res.ret = "failed to parse key"

\* The positions of the event e in log.
EventsAt(log, e) == {k \in 1..Len(log) : log[k] = e}

\* C20: in Get and Scan the transaction, once Begin has succeeded, is rolled
\* back exactly once on every return path and not before the return; in Scan
\* the iterator, once created, is closed exactly once and before that
\* rollback; on an uninitialized client Get and Scan return an error without
\* beginning a transaction and Close returns nil without calling the store.
C20_ResourceRelease ==
    op \in {"Get", "Scan", "Close"} =>
        LET log == res.log
            began == arg.initialized /\ arg.fault # "Begin"
            iterating == op = "Scan" /\ began /\ arg.fault # "Iter"
            rollbacks == EventsAt(log, "tx.Rollback")
            closes == EventsAt(log, "iter.Close")
        IN  /\ res.pc # "done" => (rollbacks = {} /\ closes = {})
            /\ (res.pc = "done" /\ op \in {"Get", "Scan"}) =>
                /\ Cardinality(rollbacks) = (IF began THEN 1 ELSE 0)
                /\ began => log[Len(log)] = "tx.Rollback"
                /\ Cardinality(closes) = (IF iterating THEN 1 ELSE 0)
                /\ iterating => log[Len(log) - 1] = "iter.Close"
                /\ \A c \in closes : \A r \in rollbacks : c < r
            /\ (res.pc = "done" /\ ~arg.initialized) =>
                /\ log = <<>>
                /\ op \in {"Get", "Scan"} => res.ret.err = "TiKV client is not initialized"
                /\ op = "Close" => res.ret.err = "nil"
            /\ (res.pc = "done" /\ op = "Close") =>
                (rollbacks = {} /\ closes = {})

\* A scan stopped by a key outside the prefix: the iterator is closed, then
\* the transaction rolled back.
C20_Witness ==
    /\ op = "Scan" /\ res.pc = "done"
    /\ arg.initialized /\ arg.fault = "none"
    /\ res.ret.err = "nil"
    /\ Len(res.ret.keys) < arg.limit /\ Len(res.ret.keys) < Len(arg.content)
    /\ Len(res.log) >= 4
    /\ res.log[1] = "Begin"
    /\ res.log[Len(res.log) - 1] = "iter.Close"
    /\ res.log[Len(res.log)] = "tx.Rollback"

\* Some id is listed more than once in the id tables of a row.
HasRepeatedID(data) ==
    \E i, m \in 1..HdrNumCols(data) : i < m /\ HdrID(data, i) = HdrID(data, m)

\* The last position of the id tables at which id is listed.
LastListed(data, id) ==
    CHOOSE i \in 1..HdrNumCols(data) :
        /\ HdrID(data, i) = id
        /\ \A m \in (i + 1)..HdrNumCols(data) : HdrID(data, m) # id

\* C21: the decoded row has one entry per distinct id of the id list, so at
\* most numSmall+numLarge entries; a row in which an id is listed more than
\* once (a narrow id equal to a wide id included) still parses, and the entry
\* of that id holds the byte range of its last occurrence, the earlier ranges
\* being dropped.
C21_UniqueColumnIDs ==
    op = "decodeRowV2" =>
        /\ (~IsMalformedRow(arg) /\ HasRepeatedID(arg)) => res.parse.ok
        /\ res.parse.ok =>
            LET n == HdrNumCols(arg)
                base == HdrBase(arg)
                ids == {HdrID(arg, i) : i \in 1..n}
            IN  /\ DOMAIN res.row = ids
                /\ DOMAIN res.parse.cols = ids
                /\ Cardinality(DOMAIN res.row) <= n
                /\ HasRepeatedID(arg) => Cardinality(DOMAIN res.row) < n
                /\ \A id \in ids :
                        LET last == LastListed(arg, id)
                            bytes == SubSeq(arg, base + HdrOffset(arg, last - 1) + 1,
                                            base + HdrOffset(arg, last))
                        IN  /\ res.parse.cols[id] = bytes
                            /\ res.row[id] = trySmartDecode(bytes)

\* Narrow ids 2 and 3 and the wide id 3: two entries, and column 3 holds the
\* bytes of the wide column, not those of the narrow one.
C21_Witness ==
    /\ op = "decodeRowV2"
    /\ arg = RowBytes(<<2, 3>>, <<3>>, <<0, 1, 2>>, <<1, 65>>)
    /\ res.parse.ok
    /\ DOMAIN res.row = {2, 3}
    /\ res.parse.cols[3] = <<65>>
    /\ res.parse.cols[2] = <<>>

====
